---- MODULE Spec2Model ----
(***************************************************************************)
(* Model of the Conduit authorization utilities: relation validation,      *)
(* tuple encoding, object-index construction, the rule cache and the two   *)
(* access-list query templates.                                            *)
(*                                                                         *)
(* Strings are sequences of one-character strings, so that includes(),     *)
(* split(), template concatenation, the regular expression test and LIKE   *)
(* are computed character by character.                                    *)
(***************************************************************************)
EXTENDS Integers, Sequences, FiniteSets, TLC

VARIABLES
  call,      \* direct call of a pure utility: function, arguments, results
  pc,        \* position of each check in the resolution pipeline
  req,       \* the (subject, relation, object) each check was given
  tuple,     \* the computed tuple of each check
  result,    \* what each check returned to its caller
  lookup,    \* the getKey of each check: its reply and what findResolution made of it
  touched,   \* history: the cache and store operations each check has issued
  chan,      \* commands sent to the key-value service, in order of issue
  kv,        \* the key-value service: key -> value with expiry
  now,       \* the key-value service's clock, in ms
  db,        \* permission tuples the relational store holds
  started    \* number of checks started

vars == <<call, pc, req, tuple, result, lookup, touched, chan, kv, now, db,
          started>>

pipelineVars == <<pc, req, tuple, result, lookup, touched, chan, kv, now, db,
                  started>>

(***************************************************************************)
(* Bounds of the pure-function inputs.                                     *)
(***************************************************************************)
MaxIdLen == 2
MaxRelLen == 2
MaxIndexIdLen == 3
MaxRoleLen == 1

IdChars == {"u", ":"}
RelChars == {"a", "Z", "1", "\n"}

RECURSIVE StringsUpTo(_, _)
StringsUpTo(chars, n) ==
  IF n = 0 THEN {<<>>}
  ELSE LET shorter == StringsUpTo(chars, n - 1)
       IN  shorter \cup {Append(s, c) : s \in shorter, c \in chars}

Star == <<"*">>
Ids == StringsUpTo(IdChars, MaxIdLen)
Rels == StringsUpTo(RelChars, MaxRelLen)
IndexIds == StringsUpTo(IdChars, MaxIndexIdLen)
IndexRoles == StringsUpTo(RelChars, MaxRoleLen) \cup {Star}

(***************************************************************************)
(* JavaScript string primitives used by the utilities.                     *)
(***************************************************************************)
\* String.prototype.includes for a one-character needle
Includes(s, c) == \E i \in 1..Len(s) : s[i] = c

\* the value of an array element that does not exist
Undefined == <<"undefined">>

FirstIndexOf(s, c) == CHOOSE i \in 1..Len(s) : s[i] = c /\ \A j \in 1..(i - 1) : s[j] # c

\* String.prototype.split(sep): every occurrence of sep delimits
RECURSIVE Split(_, _)
Split(s, sep) ==
  IF ~Includes(s, sep) THEN <<s>>
  ELSE LET i == FirstIndexOf(s, sep)
       IN  <<SubSeq(s, 1, i - 1)>> \o Split(SubSeq(s, i + 1, Len(s)), sep)

\* arr[k] with a zero-based index
At(arr, k) == IF k + 1 <= Len(arr) THEN arr[k + 1] ELSE Undefined

LowerCase == {"a", "b", "c", "d", "e", "f", "g", "h", "i", "j", "k", "l", "m",
              "n", "o", "p", "q", "r", "s", "t", "u", "v", "w", "x", "y", "z"}
UpperCase == {"A", "B", "C", "D", "E", "F", "G", "H", "I", "J", "K", "L", "M",
              "N", "O", "P", "Q", "R", "S", "T", "U", "V", "W", "X", "Y", "Z"}

\* /^[a-zA-Z]+$/.test(relation): no multiline flag, so ^ and $ are the two
\* ends of the input and every character must be in the class
RelationRegexNoPlus(relation) ==
  \A i \in 1..Len(relation) : relation[i] \in LowerCase \cup UpperCase

RelationRegex(relation) ==
  /\ Len(relation) >= 1
  /\ \A i \in 1..Len(relation) : relation[i] \in LowerCase \cup UpperCase

(***************************************************************************)
(* checkRelation: the outcome is "ok" (returns undefined) or the message   *)
(* of the Error thrown.                                                    *)
(***************************************************************************)
Ok == "ok"

checkRelationNoIdentity(subject, relation, object) ==
  IF ~Includes(subject, ":") THEN "Subject must be a valid resource identifier"
  ELSE IF ~Includes(object, ":") THEN "Object must be a valid resource identifier"
  ELSE IF ~RelationRegex(relation) THEN "Relation must be a plain string"
  ELSE Ok

checkRelation(subject, relation, object) ==
  IF ~Includes(subject, ":") THEN "Subject must be a valid resource identifier"
  ELSE IF ~Includes(object, ":") THEN "Object must be a valid resource identifier"
  ELSE IF ~RelationRegex(relation) THEN "Relation must be a plain string"
  ELSE IF subject = object THEN "Subject and object must be different"
  ELSE Ok

(***************************************************************************)
(* Tuple encoding.                                                         *)
(***************************************************************************)
computeRelationTuple(subject, relation, object) ==
  subject \o <<"#">> \o relation \o <<"@">> \o object

computePermissionTupleSwapped(subject, relation, object) ==
  subject \o <<"@">> \o relation \o <<"#">> \o object

computePermissionTuple(subject, relation, object) ==
  subject \o <<"#">> \o relation \o <<"@">> \o object

(***************************************************************************)
(* constructObjectIndex.                                                   *)
(***************************************************************************)
constructObjectIndex(subject, permission, role, object, inheritanceTree) ==
  LET wildcard == role = Star \/ object = Star
  IN  [subject |-> subject \o <<"#">> \o permission,
       subjectId |-> At(Split(subject, ":"), 1),
       subjectType |-> At(Split(subject, ":"), 0),
       subjectPermission |-> permission,
       entity |-> IF wildcard THEN Star ELSE object \o <<"#">> \o role,
       entityId |-> IF wildcard THEN Star ELSE At(Split(object, ":"), 1),
       entityType |-> IF wildcard THEN Star ELSE At(Split(object, ":"), 0),
       relation |-> IF wildcard THEN Star ELSE role,
       inheritanceTree |-> inheritanceTree]

(***************************************************************************)
(* RuleCache.  storeResolution builds the setKey command it sends without  *)
(* awaiting it; findResolution sends a getKey and maps the reply in its    *)
(* then-callback.  JavaScript's true, false and null are the strings       *)
(* below; the strings the cache holds are character sequences.             *)
(***************************************************************************)
JsTrue == "true"
JsFalse == "false"
JsNull == "null"

TrueString == <<"t", "r", "u", "e">>
FalseString == <<"f", "a", "l", "s", "e">>
\* the reply of getKey for a key that is absent
NullValue == <<"null">>

\* Boolean(decision).toString()
BooleanToString(decision) == IF decision = JsTrue THEN TrueString ELSE FalseString

CacheKey(computedTuple) ==
  <<"r", "u", "l", "e", "C", "a", "c", "h", "e", ":">> \o computedTuple

TTL == 2000

storeResolutionNoExpiry(computedTuple, decision) ==
  [op |-> "set", key |-> CacheKey(computedTuple),
   value |-> BooleanToString(decision), px |-> 0]

storeResolutionAlwaysTrue(computedTuple, decision) ==
  [op |-> "set", key |-> CacheKey(computedTuple),
   value |-> TrueString, px |-> TTL]

storeResolutionNegated(computedTuple, decision) ==
  [op |-> "set", key |-> CacheKey(computedTuple),
   value |-> BooleanToString(IF decision = JsTrue THEN JsFalse ELSE JsTrue), px |-> TTL]

storeResolution(computedTuple, decision) ==
  [op |-> "set", key |-> CacheKey(computedTuple),
   value |-> BooleanToString(decision), px |-> TTL]

findResolution(computedTuple) ==
  [op |-> "get", key |-> CacheKey(computedTuple), value |-> NullValue, px |-> 0]

isNil(value) == value = NullValue \/ value = Undefined

findResolutionThenNoNilCheck(value) ==
  IF value = TrueString THEN JsTrue ELSE JsFalse

findResolutionThenAlwaysNull(value) == JsNull

findResolutionThen(value) ==
  IF ~isNil(value) THEN (IF value = TrueString THEN JsTrue ELSE JsFalse)
  ELSE JsNull

(***************************************************************************)
(* The resolution pipeline of one authorization check:                     *)
(*   Validate -> ComputeTuple -> CacheLookup -> Hit: return                *)
(*                                           |  Miss: query -> CacheStore  *)
(* run by concurrent request handlers against one key-value service and    *)
(* one relational store.                                                   *)
(***************************************************************************)
\* no direct call of a utility is under way
NotCalled == <<"not-called">>
Pending == "pending"

NoCall == [fn |-> "none", args |-> <<>>, done |-> {}, chk |-> Pending,
           rel |-> NotCalled, perm |-> NotCalled, idx |-> NotCalled,
           pg |-> NotCalled, sql |-> NotCalled]

MaxChecks == 3
MaxTime == 2000

Procs == {"p1", "p2"}

SubjectA == <<"u", ":", "1">>
ObjectA == <<"d", ":", "4">>
ObjectB == <<"d", ":", "5">>
Owner == <<"o", "w", "n">>

Requests ==
  { <<SubjectA, Owner, ObjectA>>,
    <<SubjectA, Owner, ObjectB>>,
    <<SubjectA, Owner, SubjectA>>,
    <<SubjectA, <<"r", "1">>, ObjectA>>,
    <<<<"u", "1">>, Owner, ObjectA>>,
    <<SubjectA, Owner, <<"d", "4">>>> }

GrantableTuples ==
  {computePermissionTuple(r[1], r[2], r[3]) : r \in {q \in Requests : checkRelation(q[1], q[2], q[3]) = Ok}}

NoRequest == <<>>
NoTuple == <<>>
NoResult == "none"

NoLookup == [status |-> "none", value |-> NullValue, result |-> JsNull,
             live |-> FALSE, age |-> -1, stored |-> JsNull, snap |-> JsNull,
             replaced |-> JsNull, sinceReplaced |-> -1]

\* the key-value service's expiry: an entry written with px > 0 is gone once
\* px ms have passed; px = 0 writes an entry that stays
Live(key) ==
  /\ key \in DOMAIN kv
  /\ (kv[key].expireAt < 0 \/ now < kv[key].expireAt)

\* history: the decision of the store last issued for a key, applied or in flight
LastIssued(key) ==
  LET sets == {i \in 1..Len(chan) : chan[i].cmd.op = "set" /\ chan[i].cmd.key = key}
  IN  IF sets # {} THEN chan[CHOOSE i \in sets : \A j \in sets : j <= i].decision
      ELSE IF key \in DOMAIN kv THEN kv[key].decision
      ELSE JsNull

\* A check arrives and runs to its first await: Validate, ComputeTuple and
\* the getKey of RuleCache.findResolution, unless validation throws
StartCheck(p, r) ==
  /\ pc[p] \in {"idle", "done", "aborted"}
  /\ started < MaxChecks
  /\ started' = started + 1
  /\ req' = [req EXCEPT ![p] = r]
  /\ LET outcome == checkRelation(r[1], r[2], r[3])
         computedTuple == computePermissionTuple(r[1], r[2], r[3])
         cmd == findResolution(computedTuple)
     IN  IF outcome # Ok
         THEN /\ pc' = [pc EXCEPT ![p] = "aborted"]
              /\ result' = [result EXCEPT ![p] = outcome]
              /\ tuple' = [tuple EXCEPT ![p] = NoTuple]
              /\ lookup' = [lookup EXCEPT ![p] = NoLookup]
              /\ touched' = [touched EXCEPT ![p] = {}]
              /\ UNCHANGED chan
         ELSE /\ pc' = [pc EXCEPT ![p] = "await"]
              /\ result' = [result EXCEPT ![p] = NoResult]
              /\ tuple' = [tuple EXCEPT ![p] = computedTuple]
              /\ chan' = Append(chan, [cmd |-> cmd, from |-> p, decision |-> JsNull])
              /\ lookup' = [lookup EXCEPT ![p] = [NoLookup EXCEPT !.status = "sent",
                                                                !.snap = LastIssued(cmd.key)]]
              /\ touched' = [touched EXCEPT ![p] = {"getKey"}]
  /\ UNCHANGED <<call, kv, now, db>>

\* the key-value service handles the oldest command
KvServe ==
  /\ chan # <<>>
  /\ LET m == Head(chan)
         c == m.cmd
     IN  IF c.op = "set"
         THEN /\ kv' = [k \in DOMAIN kv \cup {c.key} |->
                          IF k = c.key
                          THEN [value |-> c.value,
                                expireAt |-> IF c.px > 0 THEN now + c.px ELSE -1,
                                writtenAt |-> now,
                                decision |-> m.decision,
                                replaced |-> IF k \in DOMAIN kv THEN kv[k].decision ELSE JsNull,
                                replacedAt |-> IF k \in DOMAIN kv THEN kv[k].writtenAt ELSE -1]
                          ELSE kv[k]]
              /\ UNCHANGED lookup
         ELSE /\ lookup' = [lookup EXCEPT ![m.from] =
                   [@ EXCEPT !.status = "served",
                             !.value = IF Live(c.key) THEN kv[c.key].value ELSE NullValue,
                             !.live = Live(c.key),
                             !.age = IF c.key \in DOMAIN kv THEN now - kv[c.key].writtenAt ELSE -1,
                             !.stored = IF c.key \in DOMAIN kv THEN kv[c.key].decision ELSE JsNull,
                             !.replaced = IF Live(c.key) THEN kv[c.key].replaced ELSE JsNull,
                             !.sinceReplaced = IF Live(c.key) /\ kv[c.key].replacedAt >= 0
                                               THEN now - kv[c.key].replacedAt ELSE -1]]
              /\ UNCHANGED kv
  /\ chan' = Tail(chan)
  /\ UNCHANGED <<call, pc, req, tuple, result, touched, now, db, started>>

\* the then-callback of findResolution and the pipeline's branch on it: a
\* hit is returned, a miss sends the query to the relational store
LookupResolved(p) ==
  /\ pc[p] = "await"
  /\ lookup[p].status = "served"
  /\ LET cached == findResolutionThen(lookup[p].value)
     IN  /\ lookup' = [lookup EXCEPT ![p] = [@ EXCEPT !.status = "resolved", !.result = cached]]
         /\ IF cached # JsNull
            THEN /\ result' = [result EXCEPT ![p] = cached]
                 /\ pc' = [pc EXCEPT ![p] = "done"]
                 /\ UNCHANGED touched
            ELSE /\ pc' = [pc EXCEPT ![p] = "query"]
                 /\ touched' = [touched EXCEPT ![p] = @ \cup {"query"}]
                 /\ UNCHANGED result
  /\ UNCHANGED <<call, req, tuple, chan, kv, now, db, started>>

\* the relational store answers; the check sends the setKey of
\* RuleCache.storeResolution without awaiting it and returns the decision
QueryResolved(p) ==
  /\ pc[p] = "query"
  /\ LET decision == IF tuple[p] \in db THEN JsTrue ELSE JsFalse
     IN  /\ result' = [result EXCEPT ![p] = decision]
         /\ chan' = Append(chan, [cmd |-> storeResolution(tuple[p], decision), from |-> p,
                                  decision |-> decision])
  /\ touched' = [touched EXCEPT ![p] = @ \cup {"setKey"}]
  /\ pc' = [pc EXCEPT ![p] = "done"]
  /\ UNCHANGED <<call, req, tuple, lookup, kv, now, db, started>>

\* time passes
Tick ==
  /\ now + 1000 <= MaxTime
  /\ now' = now + 1000
  /\ UNCHANGED <<call, pc, req, tuple, result, lookup, touched, chan, kv, db, started>>

\* a grant or a revocation in the relational store (outside this core)
Mutate(t) ==
  /\ db' = IF t \in db THEN db \ {t} ELSE db \cup {t}
  /\ UNCHANGED <<call, pc, req, tuple, result, lookup, touched, chan, kv, now, started>>

Init ==
  /\ call = NoCall
  /\ pc = [p \in Procs |-> "idle"]
  /\ req = [p \in Procs |-> NoRequest]
  /\ tuple = [p \in Procs |-> NoTuple]
  /\ result = [p \in Procs |-> NoResult]
  /\ lookup = [p \in Procs |-> NoLookup]
  /\ touched = [p \in Procs |-> {}]
  /\ chan = <<>>
  /\ kv = <<>>
  /\ now = 0
  /\ db \in SUBSET GrantableTuples
  /\ started = 0

Next ==
  \/ \E p \in Procs, r \in Requests : StartCheck(p, r)
  \/ KvServe
  \/ \E p \in Procs : LookupResolved(p)
  \/ \E p \in Procs : QueryResolved(p)
  \/ Tick
  \/ \E t \in GrantableTuples : Mutate(t)

Spec == Init /\ [][Next]_vars

(***************************************************************************)
(* Direct calls of the pure utilities.  call holds the function under      *)
(* test, its arguments and what each invocation returned.                  *)
(***************************************************************************)
IndexPermissions == {<<"r">>, <<"r", "w">>}
InheritanceTrees == {<<>>, << <<"a">>, <<"Z">> >>}

CheckCalls ==
  {[NoCall EXCEPT !.fn = "checkRelation", !.args = <<s, r, o>>] :
      s \in Ids, r \in Rels, o \in Ids}

TupleCalls ==
  {[NoCall EXCEPT !.fn = "computeTuple", !.args = <<s, r, o>>] :
      s \in Ids, r \in Rels, o \in Ids}

IndexCalls ==
  {[NoCall EXCEPT !.fn = "constructObjectIndex", !.args = <<s, p, r, o, t>>] :
      s \in IndexIds, p \in IndexPermissions, r \in IndexRoles,
      o \in IndexIds \cup {Star}, t \in InheritanceTrees}

CallCheckRelation ==
  /\ call.fn = "checkRelation"
  /\ call' = [call EXCEPT !.chk = checkRelation(call.args[1], call.args[2], call.args[3])]
  /\ UNCHANGED pipelineVars

CallComputeRelationTuple ==
  /\ call.fn = "computeTuple"
  /\ call' = [call EXCEPT !.rel = computeRelationTuple(call.args[1], call.args[2], call.args[3])]
  /\ UNCHANGED pipelineVars

CallComputePermissionTuple ==
  /\ call.fn = "computeTuple"
  /\ call' = [call EXCEPT !.perm = computePermissionTuple(call.args[1], call.args[2], call.args[3])]
  /\ UNCHANGED pipelineVars

CallConstructObjectIndex ==
  /\ call.fn = "constructObjectIndex"
  /\ call' = [call EXCEPT !.done = {"idx"},
                           !.idx = constructObjectIndex(call.args[1], call.args[2],
                                      call.args[3], call.args[4], call.args[5])]
  /\ UNCHANGED pipelineVars

PipelineIdle ==
  /\ pc = [p \in Procs |-> "idle"]
  /\ req = [p \in Procs |-> NoRequest]
  /\ tuple = [p \in Procs |-> NoTuple]
  /\ result = [p \in Procs |-> NoResult]
  /\ lookup = [p \in Procs |-> NoLookup]
  /\ touched = [p \in Procs |-> {}]
  /\ chan = <<>>
  /\ kv = <<>>
  /\ now = 0
  /\ db = {}
  /\ started = 0

InitFn ==
  /\ call \in CheckCalls \cup TupleCalls \cup IndexCalls
  /\ PipelineIdle

NextFn ==
  \/ CallCheckRelation
  \/ CallComputeRelationTuple
  \/ CallComputePermissionTuple
  \/ CallConstructObjectIndex

SpecFn == InitFn /\ [][NextFn]_vars

(***************************************************************************)
(* Access-list queries.  The two generators return SQL text; each operator *)
(* below is the relation that text denotes when the store executes it on   *)
(* tables = [collection, actorIndex, objectIndex, permission].             *)
(***************************************************************************)
MaxRows == 2

\* s LIKE pattern: % matches any run of characters, _ any one character
RECURSIVE Like(_, _)
Like(s, pattern) ==
  IF pattern = <<>> THEN s = <<>>
  ELSE IF Head(pattern) = "%"
       THEN \E k \in 0..Len(s) : Like(SubSeq(s, k + 1, Len(s)), Tail(pattern))
       ELSE /\ s # <<>>
            /\ (Head(pattern) = "_" \/ Head(pattern) = Head(s))
            /\ Like(Tail(s), Tail(pattern))

QueryError == [error |-> TRUE, rows |-> {}]
Rows(rs) == [error |-> FALSE, rows |-> rs]

getPostgresAccessListQuery(tables, objectTypeCollection, computedTuple, subject, objectType, action) ==
  LET actors == {a \in tables.actorIndex : a.subject = subject}
      obj == {o \in tables.objectIndex :
                o.subjectType = objectType /\ o.subjectPermission = action}
      reachable == {o.entity : o \in {o \in obj :
                      \E a \in actors : a.entity = o.entity \/ o.entity = Star}}
      direct == {pm.computedTuple : pm \in {pm \in tables.permission :
                      Like(pm.computedTuple, computedTuple \o <<"%">>)}}
      idx == reachable \cup direct
  IN  Rows({s \in tables.collection :
              \E entity \in idx : Like(entity, <<"%">> \o s._id \o <<"%">>)})

\* the table names and aliases the bare-identifier statement binds
SQLAliases(objectTypeCollection) ==
  {objectTypeCollection, <<"permissions">>, <<"actors">>, <<"objects">>}

getSQLAccessListQuery(tables, objectTypeCollection, computedTuple, subject, objectType, action) ==
  LET permissions == {pm \in tables.permission :
                        Like(pm.computedTuple, computedTuple \o <<"%">>)}
      actors == {a \in tables.actorIndex : a.subject = subject}
      objects == {o \in tables.objectIndex :
                    o.subjectType = objectType /\ o.subjectPermission = action}
  IN  \* the last ON clause reads obj.entity
      IF <<"obj">> \notin SQLAliases(objectTypeCollection) THEN QueryError
      ELSE Rows({s \in tables.collection :
                   /\ \E pm \in permissions : pm.computedTuple = computedTuple \o <<":">> \o s._id
                   /\ \E a \in actors, o \in objects : a.entity = s.entity \/ s.entity = Star})

Collection == <<"D", "o", "c">>
DocRows == {[_id |-> <<"1">>], [_id |-> <<"2">>]}
SubjectB == <<"u", ":", "2">>
DocType == <<"d">>
Read == <<"r">>
EntityOne == <<"d", ":", "1", "#", "o">>
EntityTwo == <<"d", ":", "2", "#", "o">>
TupleDoc == <<"u", ":", "1", "#", "r", "@", "d">>

ActorRows ==
  {[subject |-> SubjectA, entity |-> EntityOne],
   [subject |-> SubjectA, entity |-> EntityTwo],
   [subject |-> SubjectB, entity |-> EntityTwo]}

ObjectRows ==
  {[subjectType |-> DocType, subjectPermission |-> Read, entity |-> EntityOne],
   [subjectType |-> DocType, subjectPermission |-> Read, entity |-> Star],
   [subjectType |-> DocType, subjectPermission |-> <<"w">>, entity |-> EntityTwo]}

PermissionRows ==
  {[computedTuple |-> TupleDoc \o <<":", "1">>],
   [computedTuple |-> TupleDoc \o <<":", "2">>],
   [computedTuple |-> <<"u", ":", "2", "#", "r", "@", "d", ":", "1">>]}

UpTo(S, n) == {x \in SUBSET S : Cardinality(x) <= n}

QueryCalls ==
  {[NoCall EXCEPT !.fn = "accessList",
                  !.args = <<[collection |-> c, actorIndex |-> a,
                              objectIndex |-> o, permission |-> pm],
                             Collection, TupleDoc, s, DocType, Read>>] :
      c \in UpTo(DocRows, MaxRows), a \in UpTo(ActorRows, MaxRows),
      o \in UpTo(ObjectRows, MaxRows), pm \in UpTo(PermissionRows, MaxRows),
      s \in {SubjectA, SubjectB}}

RunPostgresQuery ==
  /\ call.fn = "accessList"
  /\ call' = [call EXCEPT !.done = @ \cup {"postgres"},
                           !.pg = getPostgresAccessListQuery(call.args[1], call.args[2],
                                     call.args[3], call.args[4], call.args[5], call.args[6])]
  /\ UNCHANGED pipelineVars

RunSQLQuery ==
  /\ call.fn = "accessList"
  /\ call' = [call EXCEPT !.done = @ \cup {"sql"},
                           !.sql = getSQLAccessListQuery(call.args[1], call.args[2],
                                     call.args[3], call.args[4], call.args[5], call.args[6])]
  /\ UNCHANGED pipelineVars

InitQuery ==
  /\ call \in QueryCalls
  /\ PipelineIdle

NextQuery ==
  \/ RunPostgresQuery
  \/ RunSQLQuery

SpecQuery == InitQuery /\ [][NextQuery]_vars

(***************************************************************************)
(* Vocabulary of the properties, stated without the operators above.       *)
(***************************************************************************)
Chars(s) == {s[i] : i \in 1..Len(s)}
Letters == LowerCase \cup UpperCase

\* the part before the first colon, and everything after it
TypePart(s) == SubSeq(s, 1, (CHOOSE i \in 1..Len(s) : s[i] = ":" /\ ":" \notin Chars(SubSeq(s, 1, i - 1))) - 1)
IdPart(s) == SubSeq(s, Len(TypePart(s)) + 2, Len(s))

IsTupleOf(t, s, r, o) ==
  /\ Len(t) = Len(s) + Len(r) + Len(o) + 2
  /\ SubSeq(t, 1, Len(s)) = s
  /\ t[Len(s) + 1] = "#"
  /\ SubSeq(t, Len(s) + 2, Len(s) + 1 + Len(r)) = r
  /\ t[Len(s) + Len(r) + 2] = "@"
  /\ SubSeq(t, Len(s) + Len(r) + 3, Len(t)) = o

\* the triples the validator is to reject
Malformed(s, r, o) ==
  \/ ":" \notin Chars(s)
  \/ ":" \notin Chars(o)
  \/ r = <<>>
  \/ ~(Chars(r) \subseteq Letters)
  \/ s = o

\* C1: checkRelation throws exactly when the subject has no colon, the object
\* has no colon, the relation is empty or has a character that is not a
\* letter, or the subject equals the object; otherwise it returns normally.
C1_ThrowsExactlyWhenInvalid ==
  (call.fn = "checkRelation" /\ call.chk # Pending) =>
    LET s == call.args[1]
        r == call.args[2]
        o == call.args[3]
    IN  (call.chk # Ok) <=> Malformed(s, r, o)

C1_Witness ==
  /\ call.fn = "checkRelation"
  /\ call.chk = "Subject and object must be different"
  /\ ":" \in Chars(call.args[1])
  /\ Chars(call.args[2]) \subseteq Letters /\ call.args[2] # <<>>

\* C7 (as claimed): on identical inputs and identical table contents the
\* two dialects return the same set of rows of the object collection (a
\* statement the store rejects returns no rows).
C7_DialectsAgree ==
  (call.fn = "accessList" /\ call.done = {"postgres", "sql"}) =>
    call.pg.rows = call.sql.rows

\* C8 (as claimed): the index entry collapses to the wildcard exactly when
\* role = "*" or object = "*"; otherwise entity = object#role, entityType and
\* entityId are the type and id parts of the object, and relation = role.
C8_WildcardCollapse ==
  (call.fn = "constructObjectIndex" /\ "idx" \in call.done) =>
    LET role == call.args[3]
        object == call.args[4]
        e == call.idx
        collapsed == e.entity = Star /\ e.entityId = Star /\ e.entityType = Star /\ e.relation = Star
    IN  /\ collapsed <=> (role = Star \/ object = Star)
        /\ ~(role = Star \/ object = Star) =>
             /\ e.entity = object \o <<"#">> \o role
             /\ e.relation = role
             /\ ":" \in Chars(object) =>
                  (e.entityType = TypePart(object) /\ e.entityId = IdPart(object))

\* C9 (as claimed): identifiers are split on the first colon only: the type
\* is what precedes it and the id is everything after it, further colons
\* included.
C9_FirstColonSplit ==
  (call.fn = "constructObjectIndex" /\ "idx" \in call.done) =>
    LET subject == call.args[1]
        role == call.args[3]
        object == call.args[4]
        e == call.idx
    IN  /\ ":" \in Chars(subject) =>
             (e.subjectType = TypePart(subject) /\ e.subjectId = IdPart(subject))
        /\ (":" \in Chars(object) /\ role # Star) =>
             (e.entityType = TypePart(object) /\ e.entityId = IdPart(object))

\* C10: computeRelationTuple and computePermissionTuple both return exactly
\* <subject>#<relation>@<object>, and so the same string as each other.
C10_TupleFormat ==
  call.fn = "computeTuple" =>
    /\ call.rel # NotCalled => IsTupleOf(call.rel, call.args[1], call.args[2], call.args[3])
    /\ call.perm # NotCalled => IsTupleOf(call.perm, call.args[1], call.args[2], call.args[3])
    /\ (call.rel # NotCalled /\ call.perm # NotCalled) => call.rel = call.perm

C10_Witness ==
  /\ call.fn = "computeTuple"
  /\ call.rel # NotCalled /\ call.perm # NotCalled
  /\ call.args[1] # <<>> /\ call.args[2] # <<>> /\ call.args[3] # <<>>

\* C2: a check whose triple fails validation aborts before any cache read,
\* cache write or store query: it never computes a tuple and never issues
\* getKey, setKey or a query.
C2_InvalidAbortsFirst ==
  \A p \in Procs :
    (req[p] # NoRequest /\ Malformed(req[p][1], req[p][2], req[p][3])) =>
      /\ pc[p] = "aborted"
      /\ result[p] \notin {JsTrue, JsFalse}
      /\ tuple[p] = NoTuple
      /\ touched[p] = {}
      /\ lookup[p] = NoLookup

C2_Witness ==
  \E p \in Procs, q \in Procs :
    /\ pc[p] = "aborted" /\ req[p][1] = req[p][3]
    /\ touched[q] = {"getKey", "query", "setKey"}

\* C3: a lookup issued after store(t, d), with no other store for t in
\* between and served within 2000 ms of that write, resolves to d, for
\* d = true and d = false alike.
C3_StoreThenLookup ==
  \A p \in Procs :
    (/\ lookup[p].status = "resolved"
     /\ lookup[p].snap # JsNull
     /\ lookup[p].age >= 0 /\ lookup[p].age < 2000) =>
      lookup[p].result = lookup[p].snap

C3_Witness ==
  \E p \in Procs :
    /\ lookup[p].status = "resolved"
    /\ lookup[p].snap = JsFalse
    /\ lookup[p].age = 1000
    /\ lookup[p].result = JsFalse

\* C4: findResolution returns null exactly when no unexpired entry exists
\* under the key, and returns false only when an unexpired entry holding a
\* stored false decision exists.
C4_MissIsNotHitFalse ==
  \A p \in Procs :
    lookup[p].status = "resolved" =>
      /\ lookup[p].result = JsNull <=> ~lookup[p].live
      /\ lookup[p].result = JsFalse => (lookup[p].live /\ lookup[p].stored = JsFalse)
      /\ lookup[p].result = JsTrue => (lookup[p].live /\ lookup[p].stored = JsTrue)

C4_Witness ==
  \E p \in Procs :
    /\ lookup[p].status = "resolved"
    /\ lookup[p].result = JsNull
    /\ lookup[p].stored = JsFalse
    /\ ~lookup[p].live

\* C5: every cached decision expires 2000 ms after its write: a lookup
\* served 2000 ms or more after the most recent write of its key misses, so
\* every hit comes from a write less than 2000 ms old.
C5_ExpiresAfterTTL ==
  /\ \A k \in DOMAIN kv : kv[k].expireAt = kv[k].writtenAt + 2000
  /\ \A p \in Procs :
       lookup[p].status \in {"served", "resolved"} =>
         /\ (lookup[p].age < 0 \/ lookup[p].age >= 2000) => lookup[p].value = NullValue
         /\ lookup[p].status = "resolved" =>
              /\ (lookup[p].age < 0 \/ lookup[p].age >= 2000) => lookup[p].result = JsNull
              /\ lookup[p].result # JsNull => (lookup[p].age >= 0 /\ lookup[p].age < 2000)

C5_Witness ==
  \E p \in Procs :
    /\ lookup[p].status = "resolved"
    /\ lookup[p].age = 2000
    /\ lookup[p].stored = JsTrue
    /\ lookup[p].result = JsNull

\* C6: for a valid triple, a check that finds nothing cached queries the
\* store and caches the decision; a check of the same tuple served within
\* 2000 ms of that write returns the cached decision and issues no query.
C6_EndToEnd ==
  \A p \in Procs :
    (pc[p] = "done" /\ lookup[p].status = "resolved") =>
      /\ lookup[p].age < 0 =>
           /\ touched[p] = {"getKey", "query", "setKey"}
           /\ result[p] \in {JsTrue, JsFalse}
           /\ LastIssued(CacheKey(tuple[p])) # JsNull
      /\ (lookup[p].age >= 0 /\ lookup[p].age < 2000) =>
           /\ touched[p] = {"getKey"}
           /\ result[p] = lookup[p].stored

C6_Witness ==
  \E p \in Procs, q \in Procs :
    /\ p # q
    /\ pc[p] = "done" /\ pc[q] = "done"
    /\ tuple[p] = tuple[q]
    /\ lookup[p].age < 0 /\ touched[p] = {"getKey", "query", "setKey"}
    /\ lookup[q].age = 1000 /\ touched[q] = {"getKey"}
    /\ result[q] = result[p]

\* commands of kind op for a key that the key-value service has yet to handle
InFlight(op, key) ==
  {i \in 1..Len(chan) : chan[i].cmd.op = op /\ chan[i].cmd.key = key}

\* two checks of one tuple whose lookups both found no unexpired entry
BothMissed(p, q) ==
  /\ p # q
  /\ tuple[p] # NoTuple /\ tuple[p] = tuple[q]
  /\ lookup[p].status \in {"served", "resolved"} /\ ~lookup[p].live
  /\ lookup[q].status \in {"served", "resolved"} /\ ~lookup[q].live

\* the entries the cache holds for a tuple
EntriesOf(store, computedTuple) ==
  LET key == CacheKey(computedTuple)
  IN  {k \in DOMAIN store : Len(k) >= Len(key) /\ SubSeq(k, 1, Len(key)) = key}

\* C11: concurrent lookups are not coalesced: two checks of the same tuple
\* whose lookups both find no unexpired entry both return Miss and each
\* issues its own query and its own store, neither waiting for the other;
\* each store that lands leaves one entry for the tuple, holding the
\* decision of the check whose store it was, so the last to land wins.
C11_NoCoalescing ==
  /\ [](\A p \in Procs, q \in Procs :
          BothMissed(p, q) =>
            /\ lookup[p].status = "resolved" => lookup[p].result = JsNull
            /\ pc[p] = "await" => ENABLED LookupResolved(p)
            /\ pc[p] = "query" =>
                 (touched[p] = {"getKey", "query"} /\ ENABLED QueryResolved(p))
            /\ pc[p] = "done" =>
                 /\ touched[p] = {"getKey", "query", "setKey"}
                 /\ result[p] \in {JsTrue, JsFalse}
                 /\ InFlight("set", CacheKey(tuple[p])) # {} \/ CacheKey(tuple[p]) \in DOMAIN kv)
  /\ [][\A p \in Procs, q \in Procs :
          (/\ BothMissed(p, q)
           /\ pc[p] = "done"
           /\ chan # <<>> /\ chan' = Tail(chan)
           /\ Head(chan).cmd = storeResolution(tuple[p], result[p])
           /\ Head(chan).from = p
           /\ Cardinality({i \in InFlight("set", CacheKey(tuple[p])) : chan[i].from = p}) = 1) =>
            /\ EntriesOf(kv', tuple[p]) = {CacheKey(tuple[p])}
            /\ kv'[CacheKey(tuple[p])].value = BooleanToString(result[p])
            /\ kv'[CacheKey(tuple[p])].writtenAt = now]_vars

C11_Witness ==
  \E p \in Procs, q \in Procs :
    /\ BothMissed(p, q)
    /\ pc[p] = "done" /\ pc[q] = "done"
    /\ lookup[p].age < 0 /\ lookup[q].age < 0
    /\ touched[p] = {"getKey", "query", "setKey"}
    /\ touched[q] = {"getKey", "query", "setKey"}
    /\ result[p] # result[q]
    /\ InFlight("set", CacheKey(tuple[p])) = {}
    /\ kv[CacheKey(tuple[p])].replaced = result[p]
    /\ kv[CacheKey(tuple[p])].value = BooleanToString(result[q])

\* a lookup served from an entry that overwrote an earlier entry of its key
OverwrittenHit(p) ==
  /\ lookup[p].status = "resolved"
  /\ lookup[p].replaced # JsNull
  /\ lookup[p].age >= 0 /\ lookup[p].age < 2000

\* the key-value service handles a setKey in this step
SetServed ==
  /\ chan # <<>>
  /\ Head(chan).cmd.op = "set"
  /\ chan' = Tail(chan)

\* C12: store overwrites the entry of its key: after store(t, d1) and then
\* store(t, d2), a lookup served within 2000 ms of the second write returns
\* d2, however old the first write is; the entry expires 2000 ms after the
\* second write; entries under other keys are left as they were.
C12_StoreOverwrites ==
  /\ [](\A p \in Procs : OverwrittenHit(p) =>
          /\ lookup[p].live
          /\ lookup[p].result = lookup[p].stored
          /\ lookup[p].result = lookup[p].snap)
  /\ [](\A k \in DOMAIN kv : kv[k].expireAt = kv[k].writtenAt + 2000)
  /\ [][\A k \in DOMAIN kv :
          /\ k \in DOMAIN kv'
          /\ kv'[k] # kv[k] =>
               /\ SetServed
               /\ Head(chan).cmd.key = k
               /\ kv'[k].value = BooleanToString(Head(chan).decision)
               /\ kv'[k].writtenAt = now
               /\ kv'[k].replaced = kv[k].decision]_vars

C12_Witness ==
  \E p \in Procs :
    /\ OverwrittenHit(p)
    /\ lookup[p].replaced # lookup[p].stored
    /\ lookup[p].sinceReplaced >= 2000
    /\ lookup[p].result = lookup[p].stored

====
